---------------------------- MODULE Spec2Model ----------------------------
(***************************************************************************)
(* Model of xsd2wkt (src/src/xsd2wkt/main.go): an XSD element tree is      *)
(* parsed, rendered to a Mustache template and projected to a Workato      *)
(* schema; main writes the two artifacts to disk, one after the other.     *)
(*                                                                         *)
(* A strings.Builder is modelled by the sequence of the lines written to   *)
(* it (one record per tag, section marker or leaf line), and String() by   *)
(* the concatenation of the text of those lines.                           *)
(***************************************************************************)
EXTENDS Naturals, Sequences, FiniteSets, TLC

(***************************************************************************)
(* Bounds of the explored inputs.                                          *)
(***************************************************************************)
\* largest number of elements (all depths together) of a tree without type
\* tags whose names range over Names
MaxNodes == 5
\* largest number of elements of a tree whose names range over Names and
\* whose type tags range over CommonTags
MaxTypedNodes == 3
\* largest number of elements of a tree of one name whose type tags range
\* over AllTags
MaxTagNodes == 2

Names == {"a", "b"}
TagNames == {"a"}
NoTag == {""}
CommonTags == {"", "xs:integer"}
KnownTags == {"xs:string", "xs:dateTime", "xs:boolean", "xs:integer",
              "xs:float", "xs:double", "xs:decimal"}
AllTags == KnownTags \cup {"", "xs:date", "integer", "number"}

(***************************************************************************)
(* type Element struct { Name, Type string; Children []Element }           *)
(* ElementsOf(n, names, tags): every []Element holding exactly n elements  *)
(* in all, children included.                                              *)
(***************************************************************************)
RECURSIVE ElementsOf(_, _, _)
ElementsOf(n, names, tags) ==
    IF n = 0 THEN {<<>>}
    ELSE UNION { { <<[Name |-> nm, Type |-> ty, Children |-> ch]>> \o rest :
                     nm \in names, ty \in tags,
                     ch \in ElementsOf(k, names, tags),
                     rest \in ElementsOf(n - 1 - k, names, tags) } :
                 k \in 0..(n - 1) }

\* type XSD struct { Elements []Element }: the values xml.Unmarshal can fill in
XSD ==
    { [Elements |-> es] :
        es \in (UNION { ElementsOf(n, Names, NoTag) : n \in 0..MaxNodes })
               \cup
               (UNION { ElementsOf(n, Names, CommonTags) : n \in 0..MaxTypedNodes })
               \cup
               (UNION { ElementsOf(n, TagNames, AllTags) : n \in 0..MaxTagNodes }) }

\* the zero value XSD{} that parseXSD returns beside an error
EmptyXSD == [Elements |-> <<>>]

\* what the file named by -i is: unreadable, not XML, or the text of a tree
InputFiles ==
    { [readable |-> FALSE, wellFormed |-> FALSE, xsd |-> EmptyXSD],
      [readable |-> TRUE, wellFormed |-> FALSE, xsd |-> EmptyXSD] }
    \cup { [readable |-> TRUE, wellFormed |-> TRUE, xsd |-> x] : x \in XSD }

(***************************************************************************)
(* The lines generateTemplate writes to the builder, and their text.       *)
(***************************************************************************)
Header == [kind |-> "header", name |-> "", key |-> ""]
SectionOpen(key) == [kind |-> "sectionOpen", name |-> "", key |-> key]
SectionClose(key) == [kind |-> "sectionClose", name |-> "", key |-> key]
TagOpen(name) == [kind |-> "tagOpen", name |-> name, key |-> ""]
TagClose(name) == [kind |-> "tagClose", name |-> name, key |-> ""]
Leaf(name, key) == [kind |-> "leaf", name |-> name, key |-> key]

HeaderText == "<?xml version=\"1.0\" encoding=\"UTF-8\"?>\n"

LineText(l) ==
    CASE l.kind = "header" -> HeaderText
      [] l.kind = "sectionOpen" -> "{{#" \o l.key \o "}}\n"
      [] l.kind = "sectionClose" -> "{{/" \o l.key \o "}}\n"
      [] l.kind = "tagOpen" -> "<" \o l.name \o ">\n"
      [] l.kind = "tagClose" -> "</" \o l.name \o ">\n"
      [] l.kind = "leaf" ->
            "<" \o l.name \o ">{{" \o l.key \o "}}</" \o l.name \o ">\n"

\* sb.String()
RECURSIVE BuilderString(_)
BuilderString(lines) ==
    IF lines = <<>> THEN ""
    ELSE LineText(Head(lines)) \o BuilderString(Tail(lines))

(***************************************************************************)
(* generateElementTemplate(sb, element, parentName): the lines it appends. *)
(***************************************************************************)
RECURSIVE generateElementTemplate(_, _)
RECURSIVE ElementChildrenLoop(_, _)

\* ElementChildLines with the placeholder keyed by the child's name alone
ElementChildLinesBareKey(element, child) ==
    IF Len(child.Children) > 0
    THEN generateElementTemplate(child, element.Name)
    ELSE <<Leaf(child.Name, child.Name)>>

\* one iteration of the loop over element.Children
ElementChildLines(element, child) ==
    IF Len(child.Children) > 0
    THEN generateElementTemplate(child, element.Name)
    ELSE <<Leaf(child.Name, element.Name \o "_" \o child.Name)>>

\* the loop over element.Children, from child i on
ElementChildrenLoop(element, i) ==
    IF i > Len(element.Children) THEN <<>>
    ELSE ElementChildLines(element, element.Children[i])
         \o ElementChildrenLoop(element, i + 1)

\* generateElementTemplate closing the section before the tag
generateElementTemplateSwappedClose(element, parentName) ==
    (IF parentName # ""
     THEN <<SectionOpen(parentName \o "_" \o element.Name), TagOpen(element.Name)>>
     ELSE <<>>)
    \o ElementChildrenLoop(element, 1)
    \o (IF parentName # ""
        THEN <<SectionClose(parentName \o "_" \o element.Name), TagClose(element.Name)>>
        ELSE <<>>)

generateElementTemplate(element, parentName) ==
    (IF parentName # ""
     THEN <<SectionOpen(parentName \o "_" \o element.Name), TagOpen(element.Name)>>
     ELSE <<>>)
    \o ElementChildrenLoop(element, 1)
    \o (IF parentName # ""
        THEN <<TagClose(element.Name), SectionClose(parentName \o "_" \o element.Name)>>
        ELSE <<>>)

\* the loop of generateTemplate over xsd.Elements, from element i on
RECURSIVE TopLevelLoop(_, _)

\* TopLevelLoop emitting the first element only
TopLevelLoopRootOnly(elements, i) ==
    IF i > 1 THEN <<>>
    ELSE generateElementTemplate(elements[i], "")

TopLevelLoop(elements, i) ==
    IF i > Len(elements) THEN <<>>
    ELSE generateElementTemplate(elements[i], "") \o TopLevelLoop(elements, i + 1)

\* NonEmptyTemplate writing the section markers of the first element always
NonEmptyTemplateAlwaysSection(x) ==
    <<SectionOpen(x.Elements[1].Name)>>
    \o <<TagOpen(x.Elements[1].Name)>>
    \o TopLevelLoop(x.Elements, 1)
    \o <<TagClose(x.Elements[1].Name)>>
    \o <<SectionClose(x.Elements[1].Name)>>

\* generateTemplate past the check for no elements: what follows the header
NonEmptyTemplate(x) ==
    (IF Len(x.Elements[1].Children) > 0
     THEN <<SectionOpen(x.Elements[1].Name)>> ELSE <<>>)
    \o <<TagOpen(x.Elements[1].Name)>>
    \o TopLevelLoop(x.Elements, 1)
    \o <<TagClose(x.Elements[1].Name)>>
    \o (IF Len(x.Elements[1].Children) > 0
        THEN <<SectionClose(x.Elements[1].Name)>> ELSE <<>>)

\* generateTemplate returning before the header is written when there are
\* no elements
generateTemplateNoHeaderWhenEmpty(x) ==
    IF Len(x.Elements) = 0 THEN <<>>
    ELSE <<Header>> \o NonEmptyTemplate(x)

\* generateTemplate(xsd): the lines written to sb before sb.String()
generateTemplate(x) ==
    IF Len(x.Elements) = 0 THEN <<Header>>
    ELSE <<Header>> \o NonEmptyTemplate(x)

(***************************************************************************)
(* The Workato schema.                                                     *)
(***************************************************************************)
\* mapXSDTypeToWorkatoType passing an unknown tag through
mapXSDTypeToWorkatoTypePassThrough(xsdType) ==
    CASE xsdType = "xs:string" -> "string"
      [] xsdType = "xs:dateTime" -> "date_time"
      [] xsdType = "xs:boolean" -> "boolean"
      [] xsdType = "xs:integer" -> "integer"
      [] xsdType \in {"xs:float", "xs:double", "xs:decimal"} -> "number"
      [] OTHER -> xsdType

mapXSDTypeToWorkatoType(xsdType) ==
    CASE xsdType = "xs:string" -> "string"
      [] xsdType = "xs:dateTime" -> "date_time"
      [] xsdType = "xs:boolean" -> "boolean"
      [] xsdType = "xs:integer" -> "integer"
      [] xsdType \in {"xs:float", "xs:double", "xs:decimal"} -> "number"
      [] OTHER -> "string"

\* a WorkatoField literal with Name, Label, Type and Optional set, the
\* other fields at their zero values
WorkatoField(name, type) ==
    [Name |-> name, Label |-> name, Type |-> type, Of |-> "",
     Optional |-> TRUE, ControlType |-> "", Properties |-> <<>>]

RECURSIVE generateWorkatoSchemaForChildren(_, _)

\* ChildField recursing with the field's own key, so that prefixes pile up
ChildFieldAccumulating(child, parent) ==
    LET fieldName == IF parent = "" THEN child.Name
                     ELSE parent \o "_" \o child.Name
        workatoField == WorkatoField(fieldName, mapXSDTypeToWorkatoType(child.Type))
    IN  IF Len(child.Children) > 0
        THEN [workatoField EXCEPT
                !.Type = "array", !.Of = "object",
                !.Properties = generateWorkatoSchemaForChildren(child.Children, fieldName)]
        ELSE workatoField

\* one iteration of the loop of generateWorkatoSchemaForChildren
ChildField(child, parent) ==
    LET fieldName == IF parent = "" THEN child.Name
                     ELSE parent \o "_" \o child.Name
        workatoField == WorkatoField(fieldName, mapXSDTypeToWorkatoType(child.Type))
    IN  IF Len(child.Children) > 0
        THEN [workatoField EXCEPT
                !.Type = "array", !.Of = "object",
                !.Properties = generateWorkatoSchemaForChildren(child.Children, child.Name)]
        ELSE workatoField

\* generateWorkatoSchemaForChildren putting each field in front of the
\* earlier ones
generateWorkatoSchemaForChildrenPrepending(children, parent) ==
    [i \in 1..Len(children) |-> ChildField(children[Len(children) + 1 - i], parent)]

generateWorkatoSchemaForChildren(children, parent) ==
    [i \in 1..Len(children) |-> ChildField(children[i], parent)]

\* TopLevelField keeping the mapped type of an element that has children
TopLevelFieldKeepsType(element) ==
    LET workatoField == WorkatoField(element.Name, mapXSDTypeToWorkatoType(element.Type))
    IN  IF Len(element.Children) > 0
        THEN [workatoField EXCEPT
                !.Of = "object",
                !.Properties = generateWorkatoSchemaForChildren(element.Children,
                                                                workatoField.Name)]
        ELSE workatoField

\* one iteration of the loop of generateWorkatoSchema
TopLevelField(element) ==
    LET workatoField == WorkatoField(element.Name, mapXSDTypeToWorkatoType(element.Type))
    IN  IF Len(element.Children) > 0
        THEN [workatoField EXCEPT
                !.Type = "array", !.Of = "object",
                !.Properties = generateWorkatoSchemaForChildren(element.Children,
                                                                workatoField.Name)]
        ELSE workatoField

generateWorkatoSchema(x) ==
    [i \in 1..Len(x.Elements) |-> TopLevelField(x.Elements[i])]

(***************************************************************************)
(* main: one run of the program.                                           *)
(***************************************************************************)
VARIABLES
    inputFile,      \* the file named by the -i flag
    pc,             \* the statement of main that runs next
    xsd,            \* main's xsd
    sb,             \* the lines written to generateTemplate's builder
    template,       \* main's template
    workatoSchema,  \* main's workatoSchema
    disk,           \* what this run has left of the two output files
    stdout,         \* what main has printed
    trace           \* the calls main has made, in order

vars == <<inputFile, pc, xsd, sb, template, workatoSchema, disk, stdout, trace>>

\* what a failed os.WriteFile can leave behind: nothing (the open failed) or
\* a truncated file (the write failed)
FailedWrite == {"absent", "partial"}

Init ==
    /\ inputFile \in InputFiles
    /\ pc = "parseXSD"
    /\ xsd = EmptyXSD
    /\ sb = <<>>
    /\ template = ""
    /\ workatoSchema = <<>>
    /\ disk = [template |-> "absent", schema |-> "absent"]
    /\ stdout = <<>>
    /\ trace = <<>>

\* parseXSD returns an error: main prints it and returns
ParseXSDFails ==
    /\ pc = "parseXSD"
    /\ ~(inputFile.readable /\ inputFile.wellFormed)
    /\ pc' = "done"
    /\ stdout' = Append(stdout, "Error parsing XSD:")
    /\ trace' = Append(trace, "parseXSD")
    /\ UNCHANGED <<inputFile, xsd, sb, template, workatoSchema, disk>>

ParseXSD ==
    /\ pc = "parseXSD"
    /\ inputFile.readable /\ inputFile.wellFormed
    /\ xsd' = inputFile.xsd
    /\ pc' = "generateTemplate"
    /\ trace' = Append(trace, "parseXSD")
    /\ UNCHANGED <<inputFile, sb, template, workatoSchema, disk, stdout>>

GenerateTemplate ==
    /\ pc = "generateTemplate"
    /\ sb' = generateTemplate(xsd)
    /\ template' = BuilderString(sb')
    /\ pc' = "writeTemplate"
    /\ trace' = Append(trace, "generateTemplate")
    /\ UNCHANGED <<inputFile, xsd, workatoSchema, disk, stdout>>

WriteTemplate ==
    /\ pc = "writeTemplate"
    /\ disk' = [disk EXCEPT !.template = "written"]
    /\ stdout' = Append(stdout, "Template generated successfully:")
    /\ pc' = "generateWorkatoSchema"
    /\ trace' = Append(trace, "WriteFile")
    /\ UNCHANGED <<inputFile, xsd, sb, template, workatoSchema>>

\* WriteTemplateFails without the return: main goes on to the schema
WriteTemplateFailsAndGoesOn ==
    /\ pc = "writeTemplate"
    /\ \E left \in FailedWrite : disk' = [disk EXCEPT !.template = left]
    /\ stdout' = Append(stdout, "Error writing template file:")
    /\ pc' = "generateWorkatoSchema"
    /\ trace' = Append(trace, "WriteFile")
    /\ UNCHANGED <<inputFile, xsd, sb, template, workatoSchema>>

WriteTemplateFails ==
    /\ pc = "writeTemplate"
    /\ \E left \in FailedWrite : disk' = [disk EXCEPT !.template = left]
    /\ stdout' = Append(stdout, "Error writing template file:")
    /\ pc' = "done"
    /\ trace' = Append(trace, "WriteFile")
    /\ UNCHANGED <<inputFile, xsd, sb, template, workatoSchema>>

GenerateWorkatoSchema ==
    /\ pc = "generateWorkatoSchema"
    /\ workatoSchema' = generateWorkatoSchema(xsd)
    /\ pc' = "writeWorkatoSchemaToFile"
    /\ trace' = Append(trace, "generateWorkatoSchema")
    /\ UNCHANGED <<inputFile, xsd, sb, template, disk, stdout>>

WriteWorkatoSchemaToFile ==
    /\ pc = "writeWorkatoSchemaToFile"
    /\ disk' = [disk EXCEPT !.schema = "written"]
    /\ stdout' = Append(stdout, "Workato Schema generated successfully:")
    /\ pc' = "done"
    /\ trace' = Append(trace, "writeWorkatoSchemaToFile")
    /\ UNCHANGED <<inputFile, xsd, sb, template, workatoSchema>>

WriteWorkatoSchemaToFileFails ==
    /\ pc = "writeWorkatoSchemaToFile"
    /\ \E left \in FailedWrite : disk' = [disk EXCEPT !.schema = left]
    /\ stdout' = Append(stdout, "Error writing Workato Schema to file:")
    /\ pc' = "done"
    /\ trace' = Append(trace, "writeWorkatoSchemaToFile")
    /\ UNCHANGED <<inputFile, xsd, sb, template, workatoSchema>>

Next ==
    \/ ParseXSDFails
    \/ ParseXSD
    \/ GenerateTemplate
    \/ WriteTemplate
    \/ WriteTemplateFails
    \/ GenerateWorkatoSchema
    \/ WriteWorkatoSchemaToFile
    \/ WriteWorkatoSchemaToFileFails

Spec == Init /\ [][Next]_vars

(***************************************************************************)
(* What a state of main has behind it.                                     *)
(***************************************************************************)
Called(f) == \E i \in 1..Len(trace) : trace[i] = f
Printed(msg) == \E i \in 1..Len(stdout) : stdout[i] = msg
Rendered == Called("generateTemplate")
Projected == Called("generateWorkatoSchema")

\* the element has children (a complex element)
IsComplex(e) == Len(e.Children) > 0

\* some element directly under a top-level element has children: a nesting
\* A > B > C
ThreeLevels(elements) ==
    \E i \in 1..Len(elements) :
        \E j \in 1..Len(elements[i].Children) :
            IsComplex(elements[i].Children[j])

(***************************************************************************)
(* The keys the naming contract asks for, read off the element tree in     *)
(* document order.  Each entry is an element that has a parent: its key    *)
(* (parent's name, "_", own name), the key a full-path scheme would give   *)
(* it, its depth (2 = child of a top-level element) and whether it is a    *)
(* leaf.                                                                   *)
(***************************************************************************)
RECURSIVE NestedUnder(_, _, _, _)
NestedUnder(e, path, depth, i) ==
    IF i > Len(e.Children) THEN <<>>
    ELSE LET c == e.Children[i]
         IN  <<[key |-> e.Name \o "_" \o c.Name,
                path |-> path \o "_" \o c.Name,
                depth |-> depth + 1,
                leaf |-> ~IsComplex(c)]>>
             \o NestedUnder(c, path \o "_" \o c.Name, depth + 1, 1)
             \o NestedUnder(e, path, depth, i + 1)

RECURSIVE NestedOf(_, _)
NestedOf(elements, i) ==
    IF i > Len(elements) THEN <<>>
    ELSE NestedUnder(elements[i], elements[i].Name, 1, 1) \o NestedOf(elements, i + 1)

IsLeafEntry(n) == n.leaf
KeysOf(entries) == [i \in 1..Len(entries) |-> entries[i].key]

\* the keys of the template, in the order written: section keys and
\* placeholder keys, the section of the first top-level element left out
IsKeyed(l) == l.kind \in {"sectionOpen", "leaf"}
IsLeafLine(l) == l.kind = "leaf"
IsMarker(l) == l.kind \in {"sectionOpen", "sectionClose"}
LineKeys(lines) == [i \in 1..Len(lines) |-> lines[i].key]
PlaceholderKeys(lines) == LineKeys(SelectSeq(lines, IsLeafLine))
NestedTemplateKeys(lines) ==
    LET keyed == LineKeys(SelectSeq(lines, IsKeyed))
    IN  IF Len(lines) >= 2 /\ lines[2].kind = "sectionOpen" THEN Tail(keyed) ELSE keyed

\* the names of the schema's fields below the top level, in document order
RECURSIVE FieldsUnder(_, _)
FieldsUnder(f, i) ==
    IF i > Len(f.Properties) THEN <<>>
    ELSE <<f.Properties[i]>> \o FieldsUnder(f.Properties[i], 1) \o FieldsUnder(f, i + 1)

RECURSIVE NestedFields(_, _)
NestedFields(fields, i) ==
    IF i > Len(fields) THEN <<>>
    ELSE FieldsUnder(fields[i], 1) \o NestedFields(fields, i + 1)

HasNoProperties(f) == Len(f.Properties) = 0
FieldNames(fields) == [i \in 1..Len(fields) |-> fields[i].Name]

(***************************************************************************)
(* C1 (naming law): for every complex element E, at any depth, and every   *)
(* leaf child c of E, the placeholder the template holds for c and the     *)
(* name of the schema field for c are the same string, E.name_c.name:      *)
(* read in document order, the placeholders of the template and the names  *)
(* of the property-less fields below the top level of the schema are both  *)
(* the list of those keys.                                                 *)
(***************************************************************************)
NamingLaw ==
    Projected =>
        LET expected == KeysOf(SelectSeq(NestedOf(xsd.Elements, 1), IsLeafEntry))
        IN  /\ PlaceholderKeys(sb) = expected
            /\ FieldNames(SelectSeq(NestedFields(workatoSchema, 1), HasNoProperties))
                  = expected

\* a projected tree with leaves under a top-level element and under a
\* nested complex element
NamingLawWitness ==
    /\ Projected
    /\ ThreeLevels(xsd.Elements)
    /\ Len(PlaceholderKeys(sb)) >= 2
    /\ \E i \in 1..Len(xsd.Elements) :
          \E j \in 1..Len(xsd.Elements[i].Children) :
              /\ ~IsComplex(xsd.Elements[i].Children[j])
              /\ xsd.Elements[i].Children[j].Name # xsd.Elements[i].Name

(***************************************************************************)
(* C2 (flattening law): the key of every element below the top level, in   *)
(* the template (section key or placeholder) and in the schema (field      *)
(* name), is its immediate parent's name, "_", its own name; from the      *)
(* third level on it is never the key that piles up the ancestors' names   *)
(* (A_B_C for A > B > C).                                                  *)
(***************************************************************************)
FlatteningLaw ==
    Projected =>
        LET nested == NestedOf(xsd.Elements, 1)
            inTemplate == NestedTemplateKeys(sb)
            inSchema == FieldNames(NestedFields(workatoSchema, 1))
        IN  /\ inTemplate = KeysOf(nested)
            /\ inSchema = KeysOf(nested)
            /\ \A i \in 1..Len(nested) :
                  nested[i].depth >= 3 =>
                      /\ inTemplate[i] # nested[i].path
                      /\ inSchema[i] # nested[i].path

\* a projected tree A > B > C with C a leaf
FlatteningLawWitness ==
    /\ Projected
    /\ \E i \in 1..Len(NestedOf(xsd.Elements, 1)) :
          /\ NestedOf(xsd.Elements, 1)[i].depth = 3
          /\ NestedOf(xsd.Elements, 1)[i].leaf
          /\ NestedOf(xsd.Elements, 1)[i].key = "b_a"
          /\ NestedOf(xsd.Elements, 1)[i].path = "a_b_a"

(***************************************************************************)
(* Elements paired with the fields made from them, position by position.   *)
(***************************************************************************)
Both(elements, fields) == (1..Len(elements)) \cap (1..Len(fields))

\* the scalar results: for every element without children, at any depth,
\* its type tag and the type of its field
RECURSIVE ScalarResults(_, _)
ScalarResults(elements, fields) ==
    UNION { IF IsComplex(elements[i])
            THEN ScalarResults(elements[i].Children, fields[i].Properties)
            ELSE {[tag |-> elements[i].Type, kind |-> fields[i].Type]} :
            i \in Both(elements, fields) }

ScalarKinds == {"string", "date_time", "boolean", "integer", "number"}
Kinds == ScalarKinds \cup {"array"}

(***************************************************************************)
(* C3, as stated: the type mapper is total and idempotent: the type of     *)
(* every scalar field is one of the six kinds, it is "string" when the     *)
(* element's tag is unknown or absent, and the mapper applied to that      *)
(* type gives that type again.                                             *)
(***************************************************************************)
TypeMapperIdempotent ==
    Projected =>
        \A r \in ScalarResults(xsd.Elements, workatoSchema) :
            /\ r.kind \in Kinds
            /\ (r.tag \notin KnownTags => r.kind = "string")
            /\ mapXSDTypeToWorkatoType(r.kind) = r.kind

(***************************************************************************)
(* C3, amended: the type mapper is total: the type of every scalar field   *)
(* is one of the five scalar kinds, and it is "string" when the element's  *)
(* tag is unknown or absent.  The mapper applied to its own result gives   *)
(* "string", whatever the result was: it gives the result back only when   *)
(* the result is "string".                                                 *)
(***************************************************************************)
TypeMapperTotal ==
    Projected =>
        \A r \in ScalarResults(xsd.Elements, workatoSchema) :
            /\ r.kind \in ScalarKinds
            /\ (r.tag \notin KnownTags => r.kind = "string")
            /\ mapXSDTypeToWorkatoType(r.kind) = "string"
            /\ (mapXSDTypeToWorkatoType(r.kind) = r.kind <=> r.kind = "string")

\* a projected tree with an unknown tag mapped to "string" and a known tag
\* mapped to another kind
TypeMapperWitness ==
    /\ Projected
    /\ \E r \in ScalarResults(xsd.Elements, workatoSchema) :
          r.tag = "xs:date" /\ r.kind = "string"
    /\ \E r \in ScalarResults(xsd.Elements, workatoSchema) :
          r.tag = "xs:decimal" /\ r.kind = "number"

(***************************************************************************)
(* C4: with no top-level element, generateTemplate returns the header      *)
(* line and nothing else, and generateWorkatoSchema returns no field.      *)
(***************************************************************************)
EmptyTree ==
    /\ (Rendered /\ Len(xsd.Elements) = 0) =>
          /\ sb = <<Header>>
          /\ template = "<?xml version=\"1.0\" encoding=\"UTF-8\"?>\n"
    /\ (Projected /\ Len(xsd.Elements) = 0) => workatoSchema = <<>>

\* a run over a tree without elements that wrote both files
EmptyTreeWitness ==
    /\ pc = "done"
    /\ Projected
    /\ Len(xsd.Elements) = 0
    /\ sb = <<Header>>
    /\ disk = [template |-> "written", schema |-> "written"]

(***************************************************************************)
(* Trees of leaves: one top-level element or more, none with children.     *)
(***************************************************************************)
Flat(elements) ==
    /\ Len(elements) >= 1
    /\ \A i \in 1..Len(elements) : ~IsComplex(elements[i])

\* every field is of the type the mapper gives for its element's tag, and
\* has neither properties nor a container kind
FlatSchema(elements, fields) ==
    /\ Len(fields) = Len(elements)
    /\ \A i \in Both(elements, fields) :
          /\ fields[i].Type = mapXSDTypeToWorkatoType(elements[i].Type)
          /\ fields[i].Properties = <<>>
          /\ fields[i].Of = ""

NoSectionMarkers(lines) == \A i \in 1..Len(lines) : ~IsMarker(lines[i])

(***************************************************************************)
(* C5, as stated: for a tree of leaves the schema's fields have the        *)
(* mapper's type and no properties, and the template holds no section      *)
(* marker: after the header, only leaf lines (open tag, placeholder,       *)
(* close tag).                                                             *)
(***************************************************************************)
FlatTreeOnlyLeafLines ==
    (Projected /\ Flat(xsd.Elements)) =>
        /\ FlatSchema(xsd.Elements, workatoSchema)
        /\ NoSectionMarkers(sb)
        /\ sb[1] = Header
        /\ \A i \in 2..Len(sb) : IsLeafLine(sb[i])

(***************************************************************************)
(* C5, amended: for a tree of leaves the schema's fields have the mapper's *)
(* type and no properties, and the template holds no section marker and    *)
(* no leaf line: after the header, only the opening and the closing tag    *)
(* of the first top-level element.                                         *)
(***************************************************************************)
FlatTreeNoLeafLines ==
    (Projected /\ Flat(xsd.Elements)) =>
        /\ FlatSchema(xsd.Elements, workatoSchema)
        /\ NoSectionMarkers(sb)
        /\ sb = <<Header, TagOpen(xsd.Elements[1].Name), TagClose(xsd.Elements[1].Name)>>
        /\ template = "<?xml version=\"1.0\" encoding=\"UTF-8\"?>\n"
                      \o "<" \o xsd.Elements[1].Name \o ">\n"
                      \o "</" \o xsd.Elements[1].Name \o ">\n"

\* a projected tree of two leaves of different names and kinds
FlatTreeWitness ==
    /\ Projected
    /\ Flat(xsd.Elements)
    /\ Len(xsd.Elements) = 2
    /\ xsd.Elements[1].Name # xsd.Elements[2].Name
    /\ workatoSchema[1].Type = "string"
    /\ workatoSchema[2].Type = "integer"

(***************************************************************************)
(* C6: the schema has the shape of the tree: one field per top-level       *)
(* element, in source order, and at every depth the properties of the      *)
(* field of a complex element are one field per child, in the children's   *)
(* order.  The field at a position is the one of the element at that       *)
(* position: it bears that element's key.                                  *)
(***************************************************************************)
RECURSIVE Mirrors(_, _, _)
Mirrors(elements, fields, parent) ==
    /\ Len(fields) = Len(elements)
    /\ \A i \in Both(elements, fields) :
          /\ fields[i].Name = (IF parent = "" THEN elements[i].Name
                               ELSE parent \o "_" \o elements[i].Name)
          /\ Mirrors(elements[i].Children, fields[i].Properties, elements[i].Name)

SchemaShape == Projected => Mirrors(xsd.Elements, workatoSchema, "")

\* a projected tree with two top-level elements and two children of
\* different names under one of them
SchemaShapeWitness ==
    /\ Projected
    /\ Len(xsd.Elements) = 2
    /\ \E i \in 1..2 :
          /\ Len(xsd.Elements[i].Children) = 2
          /\ xsd.Elements[i].Children[1].Name # xsd.Elements[i].Children[2].Name

(***************************************************************************)
(* C7: every field, at any depth, has label = name and optional = true;    *)
(* it has type "array", of = "object" and properties exactly when its      *)
(* element has children, whatever the element's own type tag; otherwise    *)
(* its type is the mapper's for the tag, and it has neither of nor         *)
(* properties.                                                             *)
(***************************************************************************)
RECURSIVE FieldsWellFormed(_, _)
FieldsWellFormed(elements, fields) ==
    /\ Len(fields) = Len(elements)
    /\ \A i \in Both(elements, fields) :
          LET e == elements[i]
              f == fields[i]
          IN  /\ f.Label = f.Name
              /\ f.Optional = TRUE
              /\ IsComplex(e) <=> (f.Type = "array")
              /\ IsComplex(e) <=> (f.Of = "object")
              /\ IsComplex(e) <=> (f.Properties # <<>>)
              /\ ~IsComplex(e) =>
                    /\ f.Type = mapXSDTypeToWorkatoType(e.Type)
                    /\ f.Of = ""
              /\ FieldsWellFormed(e.Children, f.Properties)

FieldInvariant == Projected => FieldsWellFormed(xsd.Elements, workatoSchema)

\* a projected tree with a complex element under a complex top-level
\* element, both with a tag of their own that maps to "integer"
FieldInvariantWitness ==
    /\ Projected
    /\ \E i \in 1..Len(xsd.Elements) :
          \E j \in 1..Len(xsd.Elements[i].Children) :
              /\ IsComplex(xsd.Elements[i].Children[j])
              /\ xsd.Elements[i].Children[j].Type = "xs:integer"
              /\ workatoSchema[i].Properties[j].Type = "array"
    /\ \E i \in 1..Len(xsd.Elements) :
          /\ IsComplex(xsd.Elements[i])
          /\ xsd.Elements[i].Type = "xs:integer"
          /\ workatoSchema[i].Type = "array"

(***************************************************************************)
(* C8: for a tree with elements, root being the first of them, the         *)
(* template is the header, the section-open marker of root.name if and     *)
(* only if root has children, the opening tag of root.name, then for every *)
(* top-level element in source order the lines of its children and no tag  *)
(* or marker of its own, then the closing tag of root.name and the         *)
(* section-close marker of root.name if and only if the section was        *)
(* opened.                                                                 *)
(***************************************************************************)
RECURSIVE ContentsFrom(_, _)
ContentsFrom(elements, i) ==
    IF i > Len(elements) THEN <<>>
    ELSE ElementChildrenLoop(elements[i], 1) \o ContentsFrom(elements, i + 1)

RootWrapsAll ==
    (Rendered /\ Len(xsd.Elements) > 0) =>
        LET root == xsd.Elements[1]
            contents == ContentsFrom(xsd.Elements, 1)
            first == IF IsComplex(root) THEN 3 ELSE 2
        IN  /\ Len(sb) = Len(contents) + (IF IsComplex(root) THEN 5 ELSE 3)
            /\ sb[1] = Header
            /\ IsComplex(root) <=> (sb[2] = SectionOpen(root.Name))
            /\ sb[first] = TagOpen(root.Name)
            /\ SubSeq(sb, first + 1, first + Len(contents)) = contents
            /\ sb[first + Len(contents) + 1] = TagClose(root.Name)
            /\ IsComplex(root) <=> (sb[Len(sb)] = SectionClose(root.Name))

\* a rendered tree whose second top-level element, of another name than
\* the first, has children, the first having none
RootWrapsAllWitness ==
    /\ Rendered
    /\ Len(xsd.Elements) >= 2
    /\ ~IsComplex(xsd.Elements[1])
    /\ IsComplex(xsd.Elements[2])
    /\ xsd.Elements[2].Name # xsd.Elements[1].Name

(***************************************************************************)
(* C9: the markers of the template are balanced and properly nested: every *)
(* section-open marker and every opening tag is closed later by the marker *)
(* or tag of the same key or name, the last opened first, and nothing is   *)
(* open at the end.  A leaf line opens and closes its tag on the spot.     *)
(***************************************************************************)
RECURSIVE WellNested(_, _, _)
WellNested(lines, i, open) ==
    IF i > Len(lines) THEN open = <<>>
    ELSE LET l == lines[i]
         IN  CASE l.kind = "sectionOpen" ->
                    WellNested(lines, i + 1, <<[kind |-> "section", id |-> l.key]>> \o open)
               [] l.kind = "tagOpen" ->
                    WellNested(lines, i + 1, <<[kind |-> "tag", id |-> l.name]>> \o open)
               [] l.kind = "sectionClose" ->
                    /\ open # <<>>
                    /\ Head(open) = [kind |-> "section", id |-> l.key]
                    /\ WellNested(lines, i + 1, Tail(open))
               [] l.kind = "tagClose" ->
                    /\ open # <<>>
                    /\ Head(open) = [kind |-> "tag", id |-> l.name]
                    /\ WellNested(lines, i + 1, Tail(open))
               [] OTHER -> WellNested(lines, i + 1, open)

TemplateBalanced == Rendered => WellNested(sb, 1, <<>>)

\* a rendered tree with a section inside a section inside the root's
TemplateBalancedWitness ==
    /\ Rendered
    /\ Len(xsd.Elements) > 0
    /\ \E j \in 1..Len(xsd.Elements[1].Children) :
          \E k \in 1..Len(xsd.Elements[1].Children[j].Children) :
              IsComplex(xsd.Elements[1].Children[j].Children[k])

(***************************************************************************)
(* C10: main takes its steps in the order parseXSD, generateTemplate,      *)
(* write of the template file, generateWorkatoSchema, write of the schema  *)
(* file, and stops at the first step that fails: after a failed parse      *)
(* nothing was generated and no file written; the schema file is written   *)
(* only after the template file was written in full, so a failed template  *)
(* write leaves no schema file, and a failed schema write leaves the       *)
(* template file as written.                                               *)
(***************************************************************************)
MainOrder ==
    <<"parseXSD", "generateTemplate", "WriteFile", "generateWorkatoSchema",
      "writeWorkatoSchemaToFile">>

MainStopsAtFirstFailure ==
    /\ Len(trace) <= Len(MainOrder)
    /\ \A i \in 1..Len(trace) : trace[i] = MainOrder[i]
    /\ Printed("Error parsing XSD:") =>
          /\ pc = "done"
          /\ trace = <<"parseXSD">>
          /\ sb = <<>> /\ template = "" /\ workatoSchema = <<>>
          /\ disk = [template |-> "absent", schema |-> "absent"]
    /\ Printed("Error writing template file:") =>
          /\ pc = "done"
          /\ trace = SubSeq(MainOrder, 1, 3)
          /\ workatoSchema = <<>>
          /\ disk.schema = "absent"
    /\ disk.schema # "absent" => disk.template = "written"
    /\ Called("generateWorkatoSchema") => disk.template = "written"
    /\ Printed("Error writing Workato Schema to file:") =>
          /\ pc = "done"
          /\ disk.template = "written"

\* a run whose template write failed on a tree with elements
TemplateWriteFailedWitness ==
    /\ pc = "done"
    /\ Printed("Error writing template file:")
    /\ Len(xsd.Elements) > 0
    /\ disk.template = "partial"

=============================================================================
